---- MODULE Spec2Model ----
(***************************************************************************)
(* Model of src/index.js: the Node client, its dispatch handler with       *)
(* sequential failover over the configured urls, the one-request domain    *)
(* methods, the getBlocks batch and the getBalance summation.              *)
(* Spec is the client against a node that answers with opaque bodies,      *)
(* SpecBalance the client asking a node for the outputs of an address.     *)
(*                                                                         *)
(* JavaScript runs each synchronous stretch of code and the microtasks it  *)
(* queues to completion before the next transport callback is delivered;   *)
(* an action below is one such stretch.  The transport (the `request`      *)
(* module) is the environment: it delivers one callback per call, with     *)
(* an error or a response, or throws synchronously.                        *)
(***************************************************************************)
EXTENDS Integers, Sequences, FiniteSets, TLC

VARIABLES client, calls, disp, net
vars == <<client, calls, disp, net>>

\* ---------------------------------------------------------------- bounds
MaxUrls   == 2      \* longest url array passed to the constructor
MaxHeight == 2      \* block heights are drawn from 1..MaxHeight
MaxCalls  == 2      \* public method calls made on the client
MaxDisp   == 2      \* dispatches (top-level handler calls) in one run
MaxUtxos  == 2      \* longest UTXO list a node answers with

\* ------------------------------------------------------- JavaScript values
Undefined == "undefined"
Null      == "null"
Truthy(v) == v \notin {Undefined, Null, ""}

EmptyObject == [k \in {} |-> ""]                       \* { }

UrlOf(i)  == "http://n" \o ToString(i)
UrlArray(n) == [i \in 1..n |-> UrlOf(i)]

Tokens    == {"", Undefined, "tok"}
\* the urls argument: a string, an array, or anything else (left out)
UrlArgs   == {[type |-> "string", str |-> UrlOf(1), arr |-> <<>>]}
             \cup {[type |-> "array", str |-> "", arr |-> UrlArray(n)] : n \in 0..MaxUrls}
             \cup {[type |-> "other", str |-> "", arr |-> <<>>]}

Blocks    == 1..MaxHeight
Txids     == {"t1"}
Addresses == {"a1"}
RawTxs    == {"raw1"}

\* what the transport hands to the callback: (error, response.statusCode, body)
TransportErrors == {"ECONNREFUSED"}
ResponseData(url) == "data:" \o url
Outcomes(url) ==
    {[error |-> Null, statusCode |-> 200, body |-> ResponseData(url)],
     [error |-> Null, statusCode |-> 200, body |-> ""],
     [error |-> Null, statusCode |-> 404, body |-> ""]}
    \cup {[error |-> e, statusCode |-> 0, body |-> Undefined] : e \in TransportErrors}

\* a call whose url has no base (this.urls[nodeIndex] was undefined) cannot
\* reach a node: the transport reports an error
InvalidUri == [error |-> "Invalid URI", statusCode |-> 0, body |-> Undefined]

NoResult == [none |-> TRUE]
NoArgs   == [token |-> "", urls |-> [type |-> "other", str |-> "", arr |-> <<>>]]
\* args is history: the arguments the constructor was called with
NoClient == [state |-> "none", token |-> "",
             urls |-> [defined |-> FALSE, list |-> <<>>], args |-> NoArgs]

\* ------------------------------------------------------------ constructor
\* lines 4-15: token check, then this.urls is set for a string or an array only
ConstructorUrls(urls) ==
    IF urls.type = "string" THEN [defined |-> TRUE, list |-> <<urls.str>>]
    ELSE IF urls.type = "array" THEN [defined |-> TRUE, list |-> urls.arr]
    ELSE [defined |-> FALSE, list |-> <<>>]

\* mutant: the token is not checked
Constructor_NoTokenCheck(token, urls) ==
    /\ client.state = "none"
    /\ client' = [state |-> "ok", token |-> token,
                  urls |-> ConstructorUrls(urls),
                  args |-> [token |-> token, urls |-> urls]]
    /\ UNCHANGED <<calls, disp, net>>

Constructor(token, urls) ==
    /\ client.state = "none"
    /\ client' = IF ~Truthy(token)
                 THEN [NoClient EXCEPT !.state = "threw",
                                       !.args = [token |-> token, urls |-> urls]]
                 ELSE [state |-> "ok", token |-> token,
                       urls |-> ConstructorUrls(urls),
                       args |-> [token |-> token, urls |-> urls]]
    /\ UNCHANGED <<calls, disp, net>>

\* ---------------------------------------------------------------- handler
\* this.urls[nodeIndex] (nodeIndex is 0-based as in the source)
UrlAt(nodeIndex) ==
    IF nodeIndex + 1 \in DOMAIN client.urls.list
    THEN client.urls.list[nodeIndex + 1] ELSE Undefined

\* mutant: the header is sent without the token
RequestOptions_NoToken(endpoint, method, json, nodeIndex) ==
    [url           |-> UrlAt(nodeIndex) \o endpoint,
     Authorization |-> "Basic ",
     method        |-> method,
     json          |-> json]

\* lines 29-36: the options object handed to request()
RequestOptions(endpoint, method, json, nodeIndex) ==
    [url           |-> UrlAt(nodeIndex) \o endpoint,
     Authorization |-> "Basic " \o client.token,
     method        |-> method,
     json          |-> json]

\* mutant: the failover position is kept on the client and shared by all calls
SharedPosition(nodeIndex) ==
    LET reached == {nodeIndex} \cup {disp[d].nodeIndex : d \in DOMAIN disp}
    IN  CHOOSE m \in reached : \A n \in reached : n <= m

handler_SharedPosition(dr, endpoint, method, json, nodeIndex, threw) ==
    LET at   == SharedPosition(nodeIndex)
        base == [dr EXCEPT !.endpoint = endpoint, !.method = method,
                           !.json = json, !.nodeIndex = at]
        att  == [nodeIndex |-> at, endpoint |-> endpoint,
                 req |-> RequestOptions(endpoint, method, json, at),
                 threw |-> threw, done |-> threw,
                 error |-> Null, statusCode |-> 0, body |-> Undefined]
    IN  IF ~client.urls.defined
        THEN [base EXCEPT !.promise = "rejected", !.reason = "TypeError"]
        ELSE IF threw
        THEN [base EXCEPT !.promise = "rejected", !.reason = "Exception",
                          !.attempts = Append(@, att)]
        ELSE [base EXCEPT !.promise = "pending", !.reason = Null,
                          !.attempts = Append(@, att)]

\* lines 26-46: the synchronous part of one handler call made on behalf of
\* dispatch record dr.  The executor runs at once: reading this.urls[nodeIndex]
\* throws when this.urls is undefined; otherwise request() is called and
\* either throws (threw) or is in flight.  An exception in the executor
\* rejects nodePromise.
handler(dr, endpoint, method, json, nodeIndex, threw) ==
    LET base == [dr EXCEPT !.endpoint = endpoint, !.method = method,
                           !.json = json, !.nodeIndex = nodeIndex]
        att  == [nodeIndex |-> nodeIndex, endpoint |-> endpoint,
                 req |-> RequestOptions(endpoint, method, json, nodeIndex),
                 threw |-> threw, done |-> threw,
                 error |-> Null, statusCode |-> 0, body |-> Undefined]
    IN  IF ~client.urls.defined
        THEN [base EXCEPT !.promise = "rejected", !.reason = "TypeError"]
        ELSE IF threw
        THEN [base EXCEPT !.promise = "rejected", !.reason = "Exception",
                          !.attempts = Append(@, att)]
        ELSE [base EXCEPT !.promise = "pending", !.reason = Null,
                          !.attempts = Append(@, att)]

NewDispatch(owner, slot, start) ==
    [owner |-> owner, slot |-> slot, start |-> start,
     endpoint |-> "", method |-> "", json |-> EmptyObject, nodeIndex |-> start,
     promise |-> "none", reason |-> Null, attempts |-> <<>>,
     state |-> "running", result |-> NoResult]

\* the outcomes the transport can deliver for in-flight call r
TransportOutcomes(r) ==
    IF UrlAt(r.nodeIndex) = Undefined THEN {InvalidUri} ELSE Outcomes(r.req.url)

\* the transport calls a dispatch record has in flight
InFlight(d, dr) ==
    IF dr.state = "running" /\ dr.promise = "pending"
    THEN {[d |-> d, nodeIndex |-> dr.nodeIndex,
           req |-> dr.attempts[Len(dr.attempts)].req]}
    ELSE {}

\* mutant: the status code is not looked at
CallbackSucceeds_IgnoresStatus(error, statusCode) == ~Truthy(error)

\* lines 37-44: the callback settles nodePromise
CallbackSucceeds(error, statusCode) == ~Truthy(error) /\ statusCode = 200

\* mutant: no sentinel for a missing error
RejectReason_NoSentinel(error) == error

\* line 42: error || 'Unknown error.'
RejectReason(error) == IF Truthy(error) THEN error ELSE "Unknown error."

\* mutant: the retry skips an endpoint
RetryIndex_Skips(nodeIndex) == nodeIndex + 2

\* line 54: the index the recursive call is made with
RetryIndex(nodeIndex) == nodeIndex + 1

HasNext(nodeIndex) == nodeIndex + 1 < Len(client.urls.list)

SuccessEnvelope(body) == [success |-> TRUE, body |-> body]

\* mutant: the failure value is put in the body field
FailureEnvelope_AsBody(error) == [success |-> FALSE, body |-> error]

FailureEnvelope(error) == [success |-> FALSE, error |-> error]

\* mutant: the retry is made with the default verb instead of the caller's
AfterAwait_LosesMethod(dr, ok, value, threw) ==
    IF ok
    THEN [dr EXCEPT !.promise = "fulfilled", !.state = "returned",
                    !.result = SuccessEnvelope(value)]
    ELSE IF ~client.urls.defined
    THEN [dr EXCEPT !.promise = "rejected", !.state = "rejected",
                    !.result = [thrown |-> "TypeError"]]
    ELSE IF HasNext(dr.nodeIndex)
    THEN handler(dr, dr.endpoint, "GET", dr.json,
                     RetryIndex(dr.nodeIndex), threw)
    ELSE [dr EXCEPT !.promise = "rejected", !.state = "returned",
                    !.result = FailureEnvelope(value)]

\* mutant: a success does not stop the walk over the endpoints
AfterAwait_TriesAll(dr, ok, value, threw) ==
    IF ~client.urls.defined
    THEN [dr EXCEPT !.promise = "rejected", !.state = "rejected",
                    !.result = [thrown |-> "TypeError"]]
    ELSE IF HasNext(dr.nodeIndex)
    THEN handler(dr, dr.endpoint, dr.method, dr.json,
                 RetryIndex(dr.nodeIndex), threw)
    ELSE IF ok
    THEN [dr EXCEPT !.promise = "fulfilled", !.state = "returned",
                    !.result = SuccessEnvelope(value)]
    ELSE [dr EXCEPT !.promise = "rejected", !.state = "returned",
                    !.result = FailureEnvelope(value)]

\* lines 48-58: the continuation after `await nodePromise`, which was
\* fulfilled with a body (ok) or rejected with a reason
AfterAwait(dr, ok, value, threw) ==
    IF ok
    THEN [dr EXCEPT !.promise = "fulfilled", !.state = "returned",
                    !.result = SuccessEnvelope(value)]
    ELSE IF ~client.urls.defined
    THEN \* this.urls.length throws inside the catch block
         [dr EXCEPT !.promise = "rejected", !.state = "rejected",
                    !.result = [thrown |-> "TypeError"]]
    ELSE IF HasNext(dr.nodeIndex)
    THEN handler(dr, dr.endpoint, dr.method, dr.json,
                     RetryIndex(dr.nodeIndex), threw)
    ELSE [dr EXCEPT !.promise = "rejected", !.state = "returned",
                    !.result = FailureEnvelope(value)]

\* ------------------------------------------------------------- getBalance
\* JavaScript values of the balance computation: numbers are decimals
\* int + frac / 10^8 (int >= 0, 0 <= frac < 10^8), strings are sequences of
\* characters
SatoshisPerBitcoin == 100000000

JsNumber(int, frac) == [type |-> "number", int |-> int, frac |-> frac]

JsString(chars) == [type |-> "string", chars |-> chars]

JsUndefined == [type |-> "undefined"]

Digits == <<"0", "1", "2", "3", "4", "5", "6", "7", "8", "9">>

DigitOf(ch) == (CHOOSE i \in 1..10 : Digits[i] = ch) - 1

RECURSIVE Pow10(_)
Pow10(n) == IF n = 0 THEN 1 ELSE 10 * Pow10(n - 1)

RECURSIVE ParseNat(_)
ParseNat(chars) ==
    IF chars = <<>> THEN 0
    ELSE ParseNat(SubSeq(chars, 1, Len(chars) - 1)) * 10 + DigitOf(chars[Len(chars)])

\* Number(v) (lines 215, 217) and the reading of a decimal string by the
\* decimal library: the digits before and after the point
ParseDecimal(chars) ==
    LET dots == {i \in 1..Len(chars) : chars[i] = "."}
    IN  IF dots = {} THEN [int |-> ParseNat(chars), frac |-> 0]
        ELSE LET p  == CHOOSE i \in dots : TRUE
                 fr == SubSeq(chars, p + 1, Len(chars))
             IN  [int  |-> ParseNat(SubSeq(chars, 1, p - 1)),
                  frac |-> ParseNat(fr) * Pow10(8 - Len(fr))]

Number(v) ==
    IF v.type = "string" THEN ParseDecimal(v.chars)
    ELSE [int |-> v.int, frac |-> v.frac]

RECURSIVE FormatNat(_)
FormatNat(n) ==
    IF n < 10 THEN <<Digits[n + 1]>>
    ELSE FormatNat(n \div 10) \o <<Digits[(n % 10) + 1]>>

\* n written with exactly width digits
RECURSIVE PadNat(_, _)
PadNat(n, width) ==
    IF width = 0 THEN <<>>
    ELSE PadNat(n \div 10, width - 1) \o <<Digits[(n % 10) + 1]>>

\* the digits after the point of f / 10^width (f > 0), without trailing zeros
RECURSIVE FormatFrac(_, _)
FormatFrac(f, width) ==
    IF f % 10 = 0 THEN FormatFrac(f \div 10, width - 1)
    ELSE PadNat(f, width)

\* .toString() of a decimal (lines 215, 217)
toString(n) ==
    IF n.frac = 0 THEN FormatNat(n.int)
    ELSE FormatNat(n.int) \o <<".">> \o FormatFrac(n.frac, 8)

\* .plus() of the decimal library: exact decimal addition
plus(a, b) ==
    LET f == a.frac + b.frac
    IN  [int  |-> a.int + b.int + (f \div SatoshisPerBitcoin),
         frac |-> f % SatoshisPerBitcoin]

\* if (v) on a number, a string or undefined
JsTruthy(v) ==
    IF v.type = "number" THEN v.int # 0 \/ v.frac # 0
    ELSE IF v.type = "string" THEN v.chars # <<>>
    ELSE FALSE

\* sb.toBitcoin (line 224): a whole number of satoshis divided by 10^8, as a number
toBitcoin(satoshis) ==
    LET n == Number(satoshis)
    IN  JsNumber(n.int \div SatoshisPerBitcoin, n.int % SatoshisPerBitcoin)

\* mutant: an unconfirmed output at height 0 is counted
Confirmed_FromZero(utxo) == utxo.height >= 0

\* line 213
Confirmed(utxo) == utxo.height > 0

\* lines 213-219: one turn of the forEach, on the two accumulators
AddUtxo(acc, utxo) ==
    IF ~Confirmed(utxo) THEN acc
    ELSE IF utxo.value.type = "string"
    THEN [acc EXCEPT !.balance =
            JsString(toString(plus(Number(utxo.value), Number(@))))]
    ELSE [acc EXCEPT !.balanceInSatoshis =
            JsString(toString(plus(Number(utxo.value), Number(@))))]

RECURSIVE SumUtxos(_, _)
SumUtxos(acc, utxos) ==
    IF utxos = <<>> THEN acc
    ELSE SumUtxos(AddUtxo(acc, Head(utxos)), Tail(utxos))

\* mutant: the satoshi accumulator is used only when it is not zero
UseSatoshis_NonZero(balanceInSatoshis) ==
    LET n == Number(balanceInSatoshis) IN n.int # 0 \/ n.frac # 0

\* line 222: if (balanceInSatoshis)
UseSatoshis(balanceInSatoshis) == JsTruthy(balanceInSatoshis)

\* mutant: a zero balance is returned as no value
Balance_ZeroAsUndefined(utxos) ==
    LET acc == SumUtxos([balance |-> JsNumber(0, 0),
                         balanceInSatoshis |-> JsNumber(0, 0)], utxos)
        res == IF UseSatoshis(acc.balanceInSatoshis)
               THEN toBitcoin(acc.balanceInSatoshis) ELSE acc.balance
    IN  IF JsTruthy(res) THEN res ELSE JsUndefined

\* lines 208-227: the balance of a fetched list
Balance(utxos) ==
    LET acc == SumUtxos([balance |-> JsNumber(0, 0),
                         balanceInSatoshis |-> JsNumber(0, 0)], utxos)
    IN  IF UseSatoshis(acc.balanceInSatoshis)
        THEN toBitcoin(acc.balanceInSatoshis)
        ELSE acc.balance

\* mutant: a failed fetch is answered with the initial balance
BalanceOf_ZeroOnFailure(response) ==
    IF response.success THEN Balance(response.body) ELSE JsNumber(0, 0)

\* lines 205-229: what getBalance returns for the envelope of its fetch
BalanceOf(response) ==
    IF response.success THEN Balance(response.body) ELSE JsUndefined

\* the lists a node answers /coin/address/{address} with
Utxos ==
    {[height |-> 100, value |-> JsNumber(500000000, 0)],
     [height |-> 0,   value |-> JsNumber(999999999, 0)],
     [height |-> 100, value |-> JsNumber(0, 0)],
     [height |-> 100, value |-> JsString(<<"1", ".", "5">>)]}

UtxoLists == UNION {[1..n -> Utxos] : n \in 0..MaxUtxos}

UtxoOutcomes ==
    {[error |-> Null, statusCode |-> 200, body |-> list] : list \in UtxoLists}
    \cup {[error |-> Null, statusCode |-> 404, body |-> ""]}
    \cup {[error |-> e, statusCode |-> 0, body |-> Undefined] : e \in TransportErrors}

\* ------------------------------------------------------- public methods
NewCall(op, begin, end, promises) ==
    [op |-> op, begin |-> begin, end |-> end, promises |-> promises,
     values |-> [i \in 1..Len(promises) |-> NoResult],
     arrived |-> <<>>,        \* history: the slots in the order they finished
     state |-> "pending", value |-> NoResult]

\* lines 112-121: the blocks collected from the responses, in array order
RECURSIVE CollectBlocks(_)
CollectBlocks(responses) ==
    IF responses = <<>> THEN <<>>
    ELSE LET response == Head(responses)
         IN  (IF response.success /\ Truthy(response.body)
              THEN <<response.body>> ELSE <<>>)
             \o CollectBlocks(Tail(responses))

\* mutant: the responses are kept in the order they arrive
PromiseAllStore_CompletionOrder(values, slot, v) ==
    LET free == {i \in DOMAIN values : values[i] = NoResult}
        first == CHOOSE i \in free : \A j \in free : i <= j
    IN  [values EXCEPT ![first] = v]

\* Promise.all (line 111): a fulfilled element is stored at the index of its
\* promise
PromiseAllStore(values, slot, v) == [values EXCEPT ![slot] = v]

\* Promise.all (line 111): the joint promise fulfils once every element is stored
PromiseAllDone(values) == \A i \in DOMAIN values : values[i] # NoResult

\* mutant: the batch answers with the first response instead of joining all
Present(v) == v # NoResult

Settle_Race(cr, nd) ==
    LET seen == [cr EXCEPT !.arrived = Append(@, nd.slot)]
    IN  IF cr.state # "pending" THEN seen
        ELSE IF nd.state = "rejected"
        THEN [seen EXCEPT !.state = "rejected", !.value = nd.result]
        ELSE IF cr.op # "getBlocks"
        THEN [seen EXCEPT !.state = "returned", !.value = nd.result]
        ELSE LET vs == PromiseAllStore(cr.values, nd.slot, nd.result)
             IN  [seen EXCEPT !.values = vs, !.state = "returned",
                              !.value = CollectBlocks(SelectSeq(vs, Present))]

\* what the finishing of dispatch record nd means for the call that made it:
\* `return await this.handler(...)` for the one-request methods (lines 70,
\* 87, 142, 158, 178, 191), Promise.all(...).then(...) for getBlocks, the
\* summation of lines 207-228 for getBalance
Settle(cr, nd) ==
    LET seen == [cr EXCEPT !.arrived = Append(@, nd.slot)]
    IN  IF cr.state # "pending" THEN seen
        ELSE IF nd.state = "rejected"
        THEN [seen EXCEPT !.state = "rejected", !.value = nd.result]
        ELSE IF cr.op = "getBalance"
        THEN [seen EXCEPT !.state = "returned", !.value = BalanceOf(nd.result)]
        ELSE IF cr.op # "getBlocks"
        THEN [seen EXCEPT !.state = "returned", !.value = nd.result]
        ELSE LET vs == PromiseAllStore(cr.values, nd.slot, nd.result)
             IN  IF PromiseAllDone(vs)
                 THEN [seen EXCEPT !.values = vs, !.state = "returned",
                                   !.value = CollectBlocks(vs)]
                 ELSE [seen EXCEPT !.values = vs]

\* a dispatch record moved from od to nd: its call and the network follow
Progress(d, nd) ==
    /\ disp' = [disp EXCEPT ![d] = nd]
    /\ net' = {r \in net : r.d # d} \cup InFlight(d, nd)
    /\ calls' = IF nd.state = "running" THEN calls
                ELSE [calls EXCEPT ![nd.owner] = Settle(@, nd)]
    /\ UNCHANGED client

CanCall(n) ==
    /\ client.state = "ok"
    /\ Len(calls) < MaxCalls
    /\ Len(disp) + n <= MaxDisp

\* a method that makes one handler call and returns its envelope
OneRequest(op, endpoint, method, json) ==
    /\ CanCall(1)
    /\ \E threw \in BOOLEAN :
         LET c  == Len(calls) + 1
             d  == Len(disp) + 1
             nd == handler(NewDispatch(c, 1, 0), endpoint, method, json, 0, threw)
         IN  /\ calls' = Append(calls, NewCall(op, 0, 0, <<d>>))
             /\ disp' = Append(disp, nd)
             /\ net' = net \cup InFlight(d, nd)
    /\ UNCHANGED client

\* handler is itself a method of the client: a caller may pass a start index
\* (line 26, nodeIndex)
StartIndexes == 1..MaxUrls

handlerFrom(endpoint, method, json, nodeIndex) ==
    /\ CanCall(1)
    /\ \E threw \in BOOLEAN :
         LET c  == Len(calls) + 1
             d  == Len(disp) + 1
             nd == handler(NewDispatch(c, 1, nodeIndex), endpoint, method, json,
                           nodeIndex, threw)
         IN  /\ calls' = Append(calls, NewCall("handler", 0, 0, <<d>>))
             /\ disp' = Append(disp, nd)
             /\ net' = net \cup InFlight(d, nd)
    /\ UNCHANGED client

getInfo == OneRequest("getInfo", "/", "GET", EmptyObject)

getBlock(block) ==
    OneRequest("getBlock", "/block/" \o ToString(block), "GET", EmptyObject)

getTransaction(txid) ==
    OneRequest("getTransaction", "/tx/" \o txid, "GET", EmptyObject)

broadcastTransaction(transaction) ==
    OneRequest("broadcastTransaction", "/", "POST",
               [method |-> "sendrawtransaction", params |-> <<transaction>>])

getUtxos(address) ==
    OneRequest("getUtxos", "/coin/address/" \o address, "GET", EmptyObject)

getTransactions(address) ==
    OneRequest("getTransactions", "/tx/address/" \o address, "GET", EmptyObject)

\* lines 200-205: getBalance fetches the outputs of the address
getBalance(address) ==
    OneRequest("getBalance", "/coin/address/" \o address, "GET", EmptyObject)

\* lines 97-123.  The loop calls handler for begin, begin+1, ..., end and
\* only then awaits: every first transport call is issued in this step.
\* BatchHeights is the range of the loop (line 103).
\* mutant: the loop stops one short of end
BatchHeights_Exclusive(begin, end) == begin..(end - 1)

BatchHeights(begin, end) == begin..end

getBlocks(begin, end) ==
    LET hs == BatchHeights(begin, end)
        n  == Cardinality(hs)
    IN  /\ CanCall(n)
        /\ \E threwAt \in SUBSET hs :
             LET c   == Len(calls) + 1
                 d0  == Len(disp)
                 nds == [i \in 1..n |->
                           handler(NewDispatch(c, i, 0),
                                       "/block/" \o ToString(begin + i - 1),
                                       "GET", EmptyObject, 0,
                                       (begin + i - 1) \in threwAt)]
                 cr  == NewCall("getBlocks", begin, end, [i \in 1..n |-> d0 + i])
             IN  /\ calls' = Append(calls,
                                IF n = 0
                                THEN [cr EXCEPT !.state = "returned",
                                                !.value = CollectBlocks(<<>>)]
                                ELSE cr)
                 /\ disp' = disp \o nds
                 /\ net' = net \cup UNION {InFlight(d0 + i, nds[i]) : i \in 1..n}
        /\ UNCHANGED client

\* ------------------------------------------------------ asynchronous steps
\* the transport delivers the callback of an in-flight call (lines 37-44),
\* and the handler resumes after its await (lines 48-58)
TransportCallback(r, o, threw) ==
    /\ r \in net
    /\ LET dr  == disp[r.d]
           k   == Len(dr.attempts)
           rec == [dr EXCEPT !.attempts[k].done = TRUE,
                             !.attempts[k].error = o.error,
                             !.attempts[k].statusCode = o.statusCode,
                             !.attempts[k].body = o.body]
           ok  == CallbackSucceeds(o.error, o.statusCode)
       IN  Progress(r.d, AfterAwait(rec, ok,
                                    IF ok THEN o.body ELSE RejectReason(o.error),
                                    threw))

\* the handler resumes after awaiting a nodePromise its own executor rejected
ResumeRejected(d, threw) ==
    /\ d \in DOMAIN disp
    /\ disp[d].state = "running"
    /\ disp[d].promise = "rejected"
    /\ Progress(d, AfterAwait(disp[d], FALSE, disp[d].reason, threw))

\* ------------------------------------------------------------ specification
Init ==
    /\ client = NoClient
    /\ calls = <<>>
    /\ disp = <<>>
    /\ net = {}

Next ==
    \/ \E token \in Tokens, urls \in UrlArgs : Constructor(token, urls)
    \/ \E nodeIndex \in StartIndexes : handlerFrom("/", "GET", EmptyObject, nodeIndex)
    \/ getInfo
    \/ \E block \in Blocks : getBlock(block)
    \/ \E begin \in Blocks, end \in Blocks : getBlocks(begin, end)
    \/ \E txid \in Txids : getTransaction(txid)
    \/ \E transaction \in RawTxs : broadcastTransaction(transaction)
    \/ \E address \in Addresses : getUtxos(address)
    \/ \E address \in Addresses : getTransactions(address)
    \/ \E r \in net, threw \in BOOLEAN :
         \E o \in TransportOutcomes(r) : TransportCallback(r, o, threw)
    \/ \E d \in DOMAIN disp, threw \in BOOLEAN : ResumeRejected(d, threw)

Spec == Init /\ [][Next]_vars

\* the client used for balances: the node answers with lists of outputs
NextBalance ==
    \/ \E token \in Tokens, urls \in UrlArgs : Constructor(token, urls)
    \/ \E address \in Addresses : getBalance(address)
    \/ \E r \in net, threw \in BOOLEAN :
         \E o \in (IF UrlAt(r.nodeIndex) = Undefined THEN {InvalidUri} ELSE UtxoOutcomes) :
            TransportCallback(r, o, threw)
    \/ \E d \in DOMAIN disp, threw \in BOOLEAN : ResumeRejected(d, threw)

SpecBalance == Init /\ [][NextBalance]_vars

\* ================================================================ claims
\* what the history of a dispatch says, stated apart from the handler's code
AttemptOk(a) == a.done /\ ~a.threw /\ a.error \in {Null, Undefined} /\ a.statusCode = 200
AttemptFailed(a) == a.done /\ ~AttemptOk(a)

\* the failure value attempt a reported
Reported(a) ==
    IF a.threw THEN "Exception"
    ELSE IF a.error \in {Null, Undefined} THEN "Unknown error."
    ELSE a.error

Att(d) == disp[d].attempts

\* C1: when the call to endpoint i fails and the call to endpoint i+1
\* succeeds, handler returns {success: true, body: B} with B the body of
\* endpoint i+1, and endpoint i+1 was sent the same path, method and payload
C1_FailoverSuccess ==
    \A d \in DOMAIN disp : \A k \in 1..(Len(Att(d)) - 1) :
        (AttemptFailed(Att(d)[k]) /\ AttemptOk(Att(d)[k + 1]))
        => /\ disp[d].state = "returned"
           /\ disp[d].result = [success |-> TRUE, body |-> Att(d)[k + 1].body]
           /\ Att(d)[k + 1].nodeIndex = Att(d)[k].nodeIndex + 1
           /\ Att(d)[k + 1].req.url
                = client.urls.list[Att(d)[k].nodeIndex + 2] \o Att(d)[k].endpoint
           /\ Att(d)[k].req.url
                = client.urls.list[Att(d)[k].nodeIndex + 1] \o Att(d)[k].endpoint
           /\ Att(d)[k + 1].req.method = Att(d)[k].req.method
           /\ Att(d)[k + 1].req.json = Att(d)[k].req.json

\* a POST whose first endpoint failed and whose second endpoint answered
C1_Witness ==
    \E d \in DOMAIN disp :
        /\ Len(Att(d)) = 2
        /\ AttemptFailed(Att(d)[1]) /\ AttemptOk(Att(d)[2])
        /\ Att(d)[2].req.method = "POST"
        /\ disp[d].state = "returned"

\* C2: when every endpoint from the start index to the end of the list
\* fails, the envelope has success = false and the error of the LAST endpoint
\* tried, or 'Unknown error.' when that endpoint reported no error
\* (state # "running": the handler has resumed after its last await)
C2_AllFailLastError ==
    \A d \in DOMAIN disp :
        (/\ disp[d].state # "running"
         /\ Len(Att(d)) = Len(client.urls.list) - disp[d].start
         /\ Len(Att(d)) >= 1
         /\ \A k \in 1..Len(Att(d)) : AttemptFailed(Att(d)[k]))
        => /\ disp[d].state = "returned"
           /\ disp[d].result
                = [success |-> FALSE, error |-> Reported(Att(d)[Len(Att(d))])]

\* two endpoints failed differently, the last one with a status that is not 200
C2_Witness ==
    \E d \in DOMAIN disp :
        /\ Len(Att(d)) = 2
        /\ AttemptFailed(Att(d)[1]) /\ AttemptFailed(Att(d)[2])
        /\ Att(d)[1].error = "ECONNREFUSED"
        /\ Att(d)[2].error = Null /\ Att(d)[2].statusCode = 404
        /\ disp[d].result = [success |-> FALSE, error |-> "Unknown error."]

\* C3: handler returns {success: true, body: B} exactly when some endpoint
\* it tried reported no error and status 200, and B is that endpoint's body
C3_SuccessIffOk200 ==
    \A d \in DOMAIN disp :
        /\ disp[d].state = "returned"
           => /\ disp[d].result.success = (\E k \in 1..Len(Att(d)) : AttemptOk(Att(d)[k]))
              /\ disp[d].result.success
                 => /\ AttemptOk(Att(d)[Len(Att(d))])
                    /\ disp[d].result.body = Att(d)[Len(Att(d))].body
        /\ (\E k \in 1..Len(Att(d)) : AttemptOk(Att(d)[k]))
           => disp[d].state = "returned"

\* a single-endpoint client got an error-free 404 and did not report success
C3_Witness ==
    \E d \in DOMAIN disp :
        /\ Len(client.urls.list) = 1
        /\ disp[d].state = "returned"
        /\ Att(d)[1].error = Null /\ Att(d)[1].statusCode = 404
        /\ ~disp[d].result.success

\* C4: a dispatch contacts the endpoints in ascending index order from its
\* start index, has at most one transport call in flight, and issues the call
\* to endpoint i+1 only after the call to endpoint i completed with a failure
C4_SequentialFailover ==
    \A d \in DOMAIN disp :
        /\ \A k \in 1..Len(Att(d)) : Att(d)[k].nodeIndex = disp[d].start + k - 1
        /\ \A k \in 1..(Len(Att(d)) - 1) : AttemptFailed(Att(d)[k])
        /\ Cardinality({r \in net : r.d = d}) <= 1
        /\ \A r \in net : r.d = d =>
              /\ Len(Att(d)) >= 1
              /\ ~Att(d)[Len(Att(d))].done
              /\ r.nodeIndex = Att(d)[Len(Att(d))].nodeIndex

\* the second endpoint's call is in flight after the first one failed
C4_Witness ==
    \E r \in net :
        /\ r.nodeIndex = 1
        /\ Len(Att(r.d)) = 2
        /\ AttemptFailed(Att(r.d)[1])

\* C5: handler never throws and its promise never rejects, for every client
\* the constructor accepts and every outcome of the transport
C5_HandlerNeverRejects ==
    \A d \in DOMAIN disp : disp[d].state # "rejected"

\* C6: every envelope handler returns, and so every value a one-request
\* method returns, has a boolean success, a body field exactly when success
\* is true and an error field exactly when success is false
IsEnvelope(e) ==
    /\ "success" \in DOMAIN e
    /\ e.success \in BOOLEAN
    /\ ("body" \in DOMAIN e) <=> e.success
    /\ ("error" \in DOMAIN e) <=> ~e.success

C6_EnvelopeShape ==
    /\ \A d \in DOMAIN disp : disp[d].state = "returned" => IsEnvelope(disp[d].result)
    /\ \A c \in DOMAIN calls :
          (calls[c].op # "getBlocks" /\ calls[c].state = "returned")
          => IsEnvelope(calls[c].value)

\* a one-request method returned a failure envelope and another a success
C6_Witness ==
    \E c1, c2 \in DOMAIN calls :
        /\ calls[c1].op = "broadcastTransaction" /\ calls[c1].state = "returned"
        /\ ~calls[c1].value.success
        /\ calls[c2].op = "getUtxos" /\ calls[c2].state = "returned"
        /\ calls[c2].value.success

\* the dispatch getBlocks call c made for its i-th height, and the slots
\* whose dispatch ended with success = true and a truthy body
Slot(c, i) == disp[calls[c].promises[i]]

GoodSlots(c) ==
    {i \in 1..Len(calls[c].promises) :
        /\ Slot(c, i).state = "returned"
        /\ Slot(c, i).result.success
        /\ Slot(c, i).result.body \notin {"", Null, Undefined}}

Rank(c, i) == Cardinality({j \in GoodSlots(c) : j <= i})

IsBatch(c) == calls[c].op = "getBlocks"

\* C7: in the result of getBlocks the body of height h1 precedes the body of
\* height h2 whenever h1 < h2, whatever order the transport calls completed in
C7_AscendingHeights ==
    \A c \in DOMAIN calls :
        (IsBatch(c) /\ calls[c].state = "returned")
        => \A i1, i2 \in GoodSlots(c) :
              i1 < i2 =>
                \E j1, j2 \in 1..Len(calls[c].value) :
                    /\ j1 < j2
                    /\ calls[c].value[j1] = Slot(c, i1).result.body
                    /\ calls[c].value[j2] = Slot(c, i2).result.body

\* both heights answered, the higher one first
C7_Witness ==
    \E c \in DOMAIN calls :
        /\ IsBatch(c) /\ calls[c].state = "returned"
        /\ calls[c].arrived = <<2, 1>>
        /\ GoodSlots(c) = {1, 2}

\* C8: the result of getBlocks holds exactly the bodies of the heights whose
\* dispatch ended with success = true and a truthy body, and getBlocks never
\* fails or rejects whatever heights fail
C8_PartialFailureTolerated ==
    \A c \in DOMAIN calls :
        IsBatch(c)
        => /\ calls[c].state # "rejected"
           /\ calls[c].state = "returned"
              => /\ Len(calls[c].value) = Cardinality(GoodSlots(c))
                 /\ \A i \in GoodSlots(c) :
                       calls[c].value[Rank(c, i)] = Slot(c, i).result.body

\* getBlocks makes one dispatch per height of [begin, end], in order, and
\* no other
BatchDispatches(c) ==
    /\ Len(calls[c].promises)
         = (IF calls[c].end >= calls[c].begin
            THEN calls[c].end - calls[c].begin + 1 ELSE 0)
    /\ \A i \in 1..Len(calls[c].promises) :
          /\ Slot(c, i).owner = c
          /\ Slot(c, i).slot = i
          /\ Slot(c, i).start = 0
          /\ Slot(c, i).endpoint = "/block/" \o ToString(calls[c].begin + i - 1)
          /\ Slot(c, i).method = "GET"
          /\ Slot(c, i).json = EmptyObject
    /\ \A i, j \in 1..Len(calls[c].promises) :
          calls[c].promises[i] = calls[c].promises[j] => i = j
    /\ \A d \in DOMAIN disp :
          disp[d].owner = c => \E i \in 1..Len(calls[c].promises) : calls[c].promises[i] = d

\* C9 as stated: one dispatch per height of [begin, end] and no other; an
\* empty result without any request when begin > end; when begin = end one
\* element if the fetch succeeds and an empty result if it fails
C9_OnePerHeight ==
    \A c \in DOMAIN calls :
        IsBatch(c)
        => /\ BatchDispatches(c)
           /\ calls[c].begin > calls[c].end
              => (calls[c].state = "returned" /\ calls[c].value = <<>>)
           /\ (calls[c].begin = calls[c].end /\ Slot(c, 1).state = "returned")
              => /\ calls[c].state = "returned"
                 /\ IF Slot(c, 1).result.success
                    THEN Len(calls[c].value) = 1
                    ELSE calls[c].value = <<>>

\* C9 amended: ... when begin = end the result is the one body if the fetch
\* ends with success = true and a truthy body, and empty if the fetch ends
\* with a failure envelope or with an empty body
C9_OnePerHeightNonEmpty ==
    \A c \in DOMAIN calls :
        IsBatch(c)
        => /\ BatchDispatches(c)
           /\ calls[c].begin > calls[c].end
              => (calls[c].state = "returned" /\ calls[c].value = <<>>)
           /\ (calls[c].begin = calls[c].end /\ Slot(c, 1).state = "returned")
              => /\ calls[c].state = "returned"
                 /\ IF Slot(c, 1).result.success
                       /\ Slot(c, 1).result.body \notin {"", Null, Undefined}
                    THEN calls[c].value = <<Slot(c, 1).result.body>>
                    ELSE calls[c].value = <<>>

\* a one-height batch whose fetch succeeded with an empty body returned nothing
C9_Witness ==
    \E c \in DOMAIN calls :
        /\ IsBatch(c) /\ calls[c].begin = calls[c].end
        /\ Slot(c, 1).state = "returned"
        /\ Slot(c, 1).result = [success |-> TRUE, body |-> ""]
        /\ calls[c].state = "returned" /\ calls[c].value = <<>>

\* C10: getBlocks issues the first transport call of every height before
\* any of them is waited for, and delivers its result only when every
\* dispatch of the batch, failover retries included, has finished
C10_LaunchAllThenJoin ==
    \A c \in DOMAIN calls :
        IsBatch(c)
        => \A h \in calls[c].begin..calls[c].end :
              \E i \in 1..Len(calls[c].promises) :
                 /\ Slot(c, i).endpoint = "/block/" \o ToString(h)
                 /\ client.urls.defined => Len(Slot(c, i).attempts) >= 1
                 /\ calls[c].state = "returned"
                    => /\ Slot(c, i).state # "running"
                       /\ \A r \in net : r.d # calls[c].promises[i]
                       /\ \A k \in 1..Len(Slot(c, i).attempts) :
                             Slot(c, i).attempts[k].done

\* a two-height batch returned after one of its heights had failed over
C10_Witness ==
    \E c \in DOMAIN calls :
        /\ IsBatch(c) /\ calls[c].state = "returned"
        /\ Len(calls[c].promises) = 2
        /\ Len(Slot(c, 1).attempts) = 2
        /\ Len(calls[c].value) = 2

\* C15: constructing with an empty or otherwise falsy token throws, leaves
\* no client and never leads to a transport call; with a non-empty token the
\* client exists and a single url string is stored as a one-element list
FalsyToken(t) == t \in {"", Undefined, Null}

C15_ConstructorTokenCheck ==
    /\ (client.state # "none" /\ FalsyToken(client.args.token))
       => /\ client.state = "threw"
          /\ ~client.urls.defined /\ client.urls.list = <<>> /\ client.token = ""
          /\ calls = <<>> /\ disp = <<>> /\ net = {}
    /\ (client.state # "none" /\ ~FalsyToken(client.args.token))
       => /\ client.state = "ok"
          /\ client.token = client.args.token
          /\ client.args.urls.type = "string"
             => client.urls = [defined |-> TRUE, list |-> <<client.args.urls.str>>]

\* the constructor was called with an empty token and threw
C15_Witness ==
    /\ client.state = "threw"
    /\ client.args.token = ""

\* this.urls[i] + path as JavaScript evaluates it, from the stored list
JsConcat(list, i, path) ==
    IF i >= 0 /\ i < Len(list) THEN list[i + 1] \o path ELSE "undefined" \o path

\* C16: every transport call, first attempt or retry, of every method carries
\* Authorization: Basic <token> with the token verbatim and goes to the url
\* made of the endpoint at the current index followed by the path
C16_AuthAndUrl ==
    /\ \A d \in DOMAIN disp : \A k \in 1..Len(Att(d)) :
          /\ Att(d)[k].req.Authorization = "Basic " \o client.args.token
          /\ Att(d)[k].req.url
               = JsConcat(client.urls.list, Att(d)[k].nodeIndex, Att(d)[1].endpoint)
    /\ \A r \in net :
          /\ r.req.Authorization = "Basic " \o client.args.token
          /\ r.req.url = JsConcat(client.urls.list, r.nodeIndex, Att(r.d)[1].endpoint)

\* a retry to the second endpoint is in flight with the header and the url
C16_Witness ==
    \E r \in net :
        /\ r.nodeIndex = 1
        /\ r.req.Authorization = "Basic tok"
        /\ r.req.url = "http://n2/tx/t1"

\* C17: a dispatch over N endpoints started at index k makes at most N - k
\* transport calls, each to a different endpoint with index >= k
C17_AtMostNMinusK ==
    \A d \in DOMAIN disp :
        /\ Len(Att(d)) <= Len(client.urls.list) - disp[d].start
        /\ \A k \in 1..Len(Att(d)) :
              /\ Att(d)[k].nodeIndex >= disp[d].start
              /\ Att(d)[k].nodeIndex < Len(client.urls.list)
        /\ \A j, k \in 1..Len(Att(d)) :
              Att(d)[j].nodeIndex = Att(d)[k].nodeIndex => j = k

\* C18: after the first successful call a dispatch makes no further call:
\* the number of its calls is (index of that endpoint - start index + 1)
C18_StopsAtFirstSuccess ==
    \A d \in DOMAIN disp : \A k \in 1..Len(Att(d)) :
        AttemptOk(Att(d)[k])
        => /\ k = Len(Att(d))
           /\ \A j \in 1..(k - 1) : ~AttemptOk(Att(d)[j])
           /\ Len(Att(d)) = Att(d)[k].nodeIndex - disp[d].start + 1
           /\ disp[d].state = "returned"
           /\ \A r \in net : r.d # d

\* the first of two endpoints answered and the second was never contacted
C18_Witness ==
    \E d \in DOMAIN disp :
        /\ Len(client.urls.list) = 2
        /\ Len(Att(d)) = 1 /\ Att(d)[1].nodeIndex = 0
        /\ AttemptOk(Att(d)[1])
        /\ disp[d].state = "returned"

\* C19: the configuration stays what the constructor made of its arguments,
\* every public method's dispatch starts at endpoint 0 and walks on from
\* there by its own failures only, whatever other dispatches did
C19_PrivateFailoverPosition ==
    /\ client.state = "ok"
       => /\ client.token = client.args.token
          /\ client.urls.defined = (client.args.urls.type \in {"string", "array"})
          /\ client.urls.list
               = (IF client.args.urls.type = "string" THEN <<client.args.urls.str>>
                  ELSE client.args.urls.arr)
    /\ \A d \in DOMAIN disp :
          /\ calls[disp[d].owner].op # "handler" => disp[d].start = 0
          /\ \A k \in 1..Len(Att(d)) :
                /\ Att(d)[k].nodeIndex = disp[d].start + k - 1
                /\ k > 1 => AttemptFailed(Att(d)[k - 1])

\* one height of a batch has failed over while the other is still at
\* endpoint 0
C19_Witness ==
    \E c \in DOMAIN calls :
        /\ IsBatch(c) /\ Len(calls[c].promises) = 2
        /\ Len(Slot(c, 1).attempts) = 2
        /\ Len(Slot(c, 2).attempts) = 1
        /\ Slot(c, 2).attempts[1].nodeIndex = 0
        /\ ~Slot(c, 2).attempts[1].done

\* ------------------------------------------------------ getBalance claims
IsBalance(c) == calls[c].op = "getBalance"

\* the fetch of getBalance call c, and whether it ended with a failure
\* envelope or with a list
Fetch(c) == disp[calls[c].promises[1]]

FetchFailed(c) == Fetch(c).state = "returned" /\ ~Fetch(c).result.success

FetchAnswered(c) == Fetch(c).state = "returned" /\ Fetch(c).result.success

Fetched(c) == Fetch(c).result.body

\* the confirmed outputs of a list whose value is of the given type
ConfirmedOf(utxos, type) ==
    {i \in DOMAIN utxos : utxos[i].height > 0 /\ utxos[i].value.type = type}

\* the amount a value stands for, as int + frac / 10^8
Amount(v) ==
    IF v.type = "number" THEN [int |-> v.int, frac |-> v.frac]
    ELSE ParseDecimal(v.chars)

RECURSIVE Total(_, _)
Total(utxos, idxs) ==
    IF idxs = {} THEN [int |-> 0, frac |-> 0]
    ELSE LET i == CHOOSE j \in idxs : TRUE
             a == Amount(utxos[i].value)
             t == Total(utxos, idxs \ {i})
         IN  [int  |-> a.int + t.int + ((a.frac + t.frac) \div 100000000),
              frac |-> (a.frac + t.frac) % 100000000]

\* a whole number of satoshis as bitcoins
InBitcoin(sat) == [int |-> sat.int \div 100000000, frac |-> sat.int % 100000000]

SpecExample ==
    <<[height |-> 100, value |-> JsNumber(500000000, 0)],
      [height |-> 0,   value |-> JsNumber(999999999, 0)]>>

\* C11: for a fetched list of numeric values getBalance returns the sum of
\* the values at height > 0 divided by 10^8, whatever the other outputs are;
\* for the list of the specification the result is 5
C11_NumericBalance ==
    \A c \in DOMAIN calls :
        (/\ IsBalance(c) /\ FetchAnswered(c)
         /\ \A i \in DOMAIN Fetched(c) : Fetched(c)[i].value.type = "number")
        => LET sat == Total(Fetched(c), ConfirmedOf(Fetched(c), "number"))
           IN  /\ calls[c].state = "returned"
               /\ calls[c].value
                    = [type |-> "number", int |-> InBitcoin(sat).int,
                       frac |-> InBitcoin(sat).frac]
               /\ Fetched(c) = SpecExample
                  => calls[c].value = [type |-> "number", int |-> 5, frac |-> 0]

\* the list of the specification was fetched and the balance is 5
C11_Witness ==
    \E c \in DOMAIN calls :
        /\ IsBalance(c) /\ FetchAnswered(c)
        /\ Fetched(c) = SpecExample
        /\ calls[c].value = [type |-> "number", int |-> 5, frac |-> 0]

\* C12: every confirmed output, whether its value is a number (satoshis) or
\* a string (bitcoins), contributes to the returned balance
C12_AllConfirmedCount ==
    \A c \in DOMAIN calls :
        (IsBalance(c) /\ FetchAnswered(c))
        => LET sat == Total(Fetched(c), ConfirmedOf(Fetched(c), "number"))
               btc == Total(Fetched(c), ConfirmedOf(Fetched(c), "string"))
               all == [int  |-> InBitcoin(sat).int + btc.int
                                 + ((InBitcoin(sat).frac + btc.frac) \div 100000000),
                       frac |-> (InBitcoin(sat).frac + btc.frac) % 100000000]
           IN  /\ calls[c].state = "returned"
               /\ Amount(calls[c].value) = all

\* C13: when the fetch fails on every endpoint getBalance resolves to no
\* value: it does not reject and returns neither the envelope nor its error
C13_FailureGivesUndefined ==
    \A c \in DOMAIN calls :
        (IsBalance(c) /\ FetchFailed(c))
        => /\ calls[c].state = "returned"
           /\ calls[c].value = [type |-> "undefined"]

\* both endpoints failed and the balance is undefined
C13_Witness ==
    \E c \in DOMAIN calls :
        /\ IsBalance(c) /\ FetchFailed(c)
        /\ Len(Fetch(c).attempts) = 2
        /\ calls[c].state = "returned"
        /\ calls[c].value = [type |-> "undefined"]

NoConfirmed(c) ==
    ConfirmedOf(Fetched(c), "number") \cup ConfirmedOf(Fetched(c), "string") = {}

\* C14 as stated: the value returned after a failed fetch equals the value
\* returned for a fetched list without confirmed outputs
C14_FailureLooksLikeZero ==
    \A c1, c2 \in DOMAIN calls :
        (/\ IsBalance(c1) /\ FetchFailed(c1)
         /\ IsBalance(c2) /\ FetchAnswered(c2) /\ NoConfirmed(c2))
        => calls[c1].value = calls[c2].value

Falsy(v) ==
    \/ v.type = "undefined"
    \/ v.type = "number" /\ v.int = 0 /\ v.frac = 0
    \/ v.type = "string" /\ v.chars = <<>>

\* C14 amended: a failed fetch gives undefined and a list without confirmed
\* outputs gives the number 0: two different values, both of them falsy
C14_FailureAndZeroBothFalsy ==
    \A c1, c2 \in DOMAIN calls :
        (/\ IsBalance(c1) /\ FetchFailed(c1)
         /\ IsBalance(c2) /\ FetchAnswered(c2) /\ NoConfirmed(c2))
        => /\ calls[c1].value = [type |-> "undefined"]
           /\ calls[c2].value = [type |-> "number", int |-> 0, frac |-> 0]
           /\ calls[c1].value # calls[c2].value
           /\ Falsy(calls[c1].value) /\ Falsy(calls[c2].value)

\* one balance call failed, another fetched only an unconfirmed output
C14_Witness ==
    \E c1, c2 \in DOMAIN calls :
        /\ IsBalance(c1) /\ FetchFailed(c1) /\ calls[c1].state = "returned"
        /\ IsBalance(c2) /\ FetchAnswered(c2) /\ calls[c2].state = "returned"
        /\ Len(Fetched(c2)) = 1 /\ Fetched(c2)[1].height = 0

\* C20: the numeric and the string values are summed apart and never added:
\* with a confirmed numeric value (0 included) the result is the numeric sum
\* divided by 10^8, with confirmed string values only it is their sum as
\* it stands
C20_TwoAccumulators ==
    \A c \in DOMAIN calls :
        (IsBalance(c) /\ FetchAnswered(c))
        => LET sat == Total(Fetched(c), ConfirmedOf(Fetched(c), "number"))
               btc == Total(Fetched(c), ConfirmedOf(Fetched(c), "string"))
           IN  /\ calls[c].state = "returned"
               /\ ConfirmedOf(Fetched(c), "number") # {}
                  => calls[c].value
                       = [type |-> "number", int |-> InBitcoin(sat).int,
                          frac |-> InBitcoin(sat).frac]
               /\ (ConfirmedOf(Fetched(c), "number") = {}
                   /\ ConfirmedOf(Fetched(c), "string") # {})
                  => /\ calls[c].value.type = "string"
                     /\ Amount(calls[c].value) = btc
               /\ NoConfirmed(c)
                  => calls[c].value = [type |-> "number", int |-> 0, frac |-> 0]

\* a confirmed numeric 0 next to a confirmed string value: the result is 0
C20_Witness ==
    \E c \in DOMAIN calls :
        /\ IsBalance(c) /\ FetchAnswered(c)
        /\ Len(Fetched(c)) = 2
        /\ Fetched(c)[1].value = [type |-> "number", int |-> 0, frac |-> 0]
        /\ Fetched(c)[1].height > 0
        /\ Fetched(c)[2].value.type = "string" /\ Fetched(c)[2].height > 0
        /\ calls[c].value = [type |-> "number", int |-> 0, frac |-> 0]

====
